---- MODULE Spec2Model ----
(***************************************************************************)
(* A model of parse-pdf (src/main.py): the image relevance filter, the     *)
(* file cache, the image analyzer and the parse_pdf extraction pipeline.   *)
(*                                                                         *)
(* Text is modelled as a sequence of tokens <<kind, n>>:                   *)
(*   <<"nl",0>>  a newline          <<"sp",0>>  a space                    *)
(*   <<"ch",n>>  a visible character of extracted or analysis text         *)
(*   <<"page",n>>  the literal "--- Page n ---"                            *)
(*   <<"img",n>>   the literal "--- Image Analysis (Page n) ---"           *)
(*   <<"err",0>>   the literal "Error analyzing image:"                    *)
(*   <<"none",0>>  the literal "No analysis available"                     *)
(* so concatenation, prefixes and str.strip() are computed, not assumed.   *)
(***************************************************************************)
EXTENDS Integers, Sequences, FiniteSets, TLC

\* Bounds of the model.
MaxPages == 2
MaxImages == 2
NReq == 2
MaxDim == 202

VARIABLES
    files,          \* the .cache directory: fingerprint -> file content
    doc,            \* the PDF under test (fixed for a behaviour)
    pc,             \* per request: where parse_pdf is
    pdf_content,    \* per request: the uploaded bytes (the parsed PDF)
    full_content,   \* per request: the local full_content
    page_num,       \* per request: the page the loop is on (1-based, 0 before)
    obj,            \* per request: how many XObjects of the page are done
    calls,          \* per request: history of claude_client.analyze_image calls
    result,         \* per request: PDFParseResponse.content
    error,          \* per request: the exception that left parse_pdf
    seen,           \* per request: the cache file's state at lookup (history)
    width,          \* filter harness: input width
    height,         \* filter harness: input height
    relevant        \* filter harness: result of is_relevant_image, or "unset"

vars == <<files, doc, pc, pdf_content, full_content, page_num, obj, calls,
          result, error, seen, width, height, relevant>>

pipelineVars == <<files, doc, pc, pdf_content, full_content, page_num, obj,
                  calls, result, error, seen>>

filterVars == <<width, height, relevant>>

Reqs == 1..NReq

----------------------------------------------------------------------------
\* Text.

NL == <<"nl", 0>>

SP == <<"sp", 0>>

IsSpace(tok) == tok[1] \in {"nl", "sp"}

RECURSIVE lstrip(_)
lstrip(s) == IF s # <<>> /\ IsSpace(Head(s)) THEN lstrip(Tail(s)) ELSE s

RECURSIVE rstrip(_)
rstrip(s) ==
    IF s # <<>> /\ IsSpace(s[Len(s)]) THEN rstrip(SubSeq(s, 1, Len(s) - 1)) ELSE s

\* str.strip() of main.py:169.
strip(s) == rstrip(lstrip(s))

IsPrefix(s, t) == Len(s) <= Len(t) /\ SubSeq(t, 1, Len(s)) = s

\* f"\n\n--- Page {page_num} ---\n\n{page_text}\n"
PageSection(n, page_text) == <<NL, NL, <<"page", n>>, NL, NL>> \o page_text \o <<NL>>

\* f"\n\n--- Image Analysis (Page {page_num}) ---\n\n{analysis}\n"
ImageSection(n, analysis) == <<NL, NL, <<"img", n>>, NL, NL>> \o analysis \o <<NL>>

\* f"Error analyzing image: {str(e)}"
ErrorText(cause) == <<<<"err", 0>>, SP>> \o cause

----------------------------------------------------------------------------
\* Image relevance filter.

\* width / height if height != 0 else 0, kept as an exact fraction <<num, den>>.
\* (Python's int/int is correctly rounded, and 0.8 and 1.2 are the doubles
\* nearest 4/5 and 6/5; for den < 2^52 the float comparisons below agree with
\* the exact ones.)
aspect_ratio(w, h) == IF h # 0 THEN <<w, h>> ELSE <<0, 1>>

\* 0.8 <= a
GeLow(a) == 8 * a[2] <= 10 * a[1]

\* a <= 1.2
LeHigh(a) == 10 * a[1] <= 12 * a[2]

is_relevant_image_strict(w, h) ==
    ~ (w * h <= 40000 /\ GeLow(aspect_ratio(w, h)) /\ LeHigh(aspect_ratio(w, h)))

is_relevant_image_noguard(w, h) ==
    ~ (w * h < 40000 /\ 4 * h <= 5 * w /\ 5 * w <= 6 * h)

is_relevant_image(w, h) ==
    ~ (w * h < 40000 /\ GeLow(aspect_ratio(w, h)) /\ LeHigh(aspect_ratio(w, h)))

----------------------------------------------------------------------------
\* PDF inputs.  A PDF is a sequence of pages; a page is its extracted text and
\* the entries of its /Resources /XObject dictionary, in dictionary order.

NoEntry == "<no entry>"

XObject(subtype, filter, w, h) ==
    [Subtype |-> subtype, Filter |-> filter, Width |-> w, Height |-> h]

\* The XObjects a page may hold.
XObjectKinds ==
    { XObject("/Image", "/DCTDecode", 500, 500),
      XObject("/Image", "/FlateDecode", 100, 100),
      XObject("/Image", "/LZWDecode", 500, 500),
      XObject("/Image", NoEntry, 500, 500),
      XObject("/Form", NoEntry, 0, 0) }

\* The library step that raises for an object, if any: get_data() (stream
\* decoding), Image.frombytes / Image.open ("decode", malformed pixel data) or
\* img.save ("save").  It depends on the bytes of the stream, which the model
\* does not carry, so it is left open at each object.
Faults == {"none", "get_data", "decode", "save"}

\* page.extract_text() of page k: one visible character, different per page.
PageText(k) == <<<<"ch", k>>>>

SeqsUpTo(S, n) == UNION { [1..k -> S] : k \in 0..n }

\* Nondecreasing maps of images 1..n to pages 1..p.
Placements(n, p) ==
    { f \in [1..n -> 1..p] : \A i \in 1..n : \A j \in 1..n : i <= j => f[i] <= f[j] }

ImagesOn(imgs, place, k) ==
    LET idx == { i \in 1..Len(imgs) : place[i] = k }
        lo == IF idx = {} THEN 1 ELSE CHOOSE i \in idx : \A j \in idx : i <= j
    IN  SubSeq(imgs, lo, lo + Cardinality(idx) - 1)

\* The PDF of `pages` pages whose XObjects are imgs, imgs[i] on page place[i].
MakePdf(pages, imgs, place) ==
    [k \in 1..pages |-> [text |-> PageText(k), images |-> ImagesOn(imgs, place, k)]]

\* A second upload, different from every PDF MakePdf builds.
OtherPdf == << [text |-> <<>>, images |-> <<>>] >>

\* hashlib.sha256(pdf_content).hexdigest(): equal bytes give equal
\* fingerprints; collisions are not modelled.
get_pdf_hash(content) == <<"sha256", content>>

----------------------------------------------------------------------------
\* FileCache: one file <key>.json per fingerprint.  A file is the JSON text of
\* a value, complete or cut short (opened for writing and not yet, or never,
\* fully written).

File(value, complete) == [value |-> value, complete |-> complete]

\* result.dict()
ResponseDict(content) == [content |-> content]

NoValue == ResponseDict(<<>>)

FileState(fs, key) ==
    IF key \notin DOMAIN fs THEN "absent"
    ELSE IF fs[key].complete THEN "complete" ELSE "partial"

\* FileCache.get: None when the file does not exist, else json.load of it,
\* which raises on text that is not complete JSON.
FileCache_get_nocache(fs, key) == [ret |-> "None", value |-> NoValue]

FileCache_get(fs, key) ==
    IF key \notin DOMAIN fs THEN [ret |-> "None", value |-> NoValue]
    ELSE IF fs[key].complete THEN [ret |-> "value", value |-> fs[key].value]
    ELSE [ret |-> "raise", value |-> NoValue]

\* open(file_path, "w"): creates the file or truncates the one that is there.
open_w(fs, key) == (key :> File(NoValue, FALSE)) @@ fs

\* json.dump(value, f) running to its end.
json_dump(fs, key, value) == (key :> File(value, TRUE)) @@ fs

\* `if cached_result:` -- a loaded dict is truthy when it has any key, and
\* every stored dict has the key "content".
TruthyContent(got) == got.ret = "value" /\ got.value.content # <<>>

Truthy(got) == got.ret = "value"

----------------------------------------------------------------------------
\* ClaudeClient.analyze_image.  A reply of the model API is a text, an empty
\* content list, or an exception with a message.

AnalyzerReplies ==
    { [kind |-> "text", text |-> <<<<"ch", 0>>>>],
      [kind |-> "empty", text |-> <<>>],
      [kind |-> "raise", text |-> <<<<"ch", 0>>>>] }

\* message.content[0].text if message.content else "No analysis available"
analyze_image(reply) ==
    IF reply.kind = "text" THEN reply.text ELSE <<<<"none", 0>>>>

\* try: analysis = analyze_image(...)  except Exception as e: analysis = "Error ..."
AnalysisOrRaise(reply) ==
    [raised |-> reply.kind = "raise", analysis |-> analyze_image(reply)]

AnalysisOrError(reply) ==
    IF reply.kind = "raise"
    THEN [raised |-> FALSE, analysis |-> ErrorText(reply.text)]
    ELSE [raised |-> FALSE, analysis |-> analyze_image(reply)]

----------------------------------------------------------------------------
\* One pass of the body of `for obj in xObject` up to the analyzer call: what
\* the code does with XObject x when library step `fault` raises for it.

RecognizedFilters == {"/FlateDecode", "/DCTDecode", "/JPXDecode"}

MimeType(filter) ==
    CASE filter = "/FlateDecode" -> "image/png"
      [] filter = "/DCTDecode" -> "image/jpeg"
      [] filter = "/JPXDecode" -> "image/jp2"
      [] OTHER -> "none"

Do(what, err, mime) == [do |-> what, error |-> err, mime |-> mime]

ImageStepNoFilterCheck(x, fault) ==
    IF x.Subtype # "/Image" THEN Do("continue", "", "none")
    ELSE IF fault = "get_data" THEN Do("raise", "get_data", "none")
    ELSE IF x.Filter = NoEntry THEN Do("raise", "filter", "none")
    ELSE IF fault = "decode" THEN Do("raise", "decode", "none")
    ELSE IF ~ is_relevant_image(x.Width, x.Height) THEN Do("continue", "", "none")
    ELSE IF fault = "save" THEN Do("raise", "save", "none")
    ELSE Do("analyze", "", MimeType(x.Filter))

\* main.py:130-156, in the order of the code: the subtype test, get_data(),
\* the /Filter lookup (a KeyError when the entry is missing), the decode of a
\* recognized filter or `continue`, the relevance filter, the re-encoding.
ImageStep(x, fault) ==
    IF x.Subtype # "/Image" THEN Do("continue", "", "none")
    ELSE IF fault = "get_data" THEN Do("raise", "get_data", "none")
    ELSE IF x.Filter = NoEntry THEN Do("raise", "filter", "none")
    ELSE IF x.Filter \notin RecognizedFilters THEN Do("continue", "", "none")
    ELSE IF fault = "decode" THEN Do("raise", "decode", "none")
    ELSE IF ~ is_relevant_image(x.Width, x.Height) THEN Do("continue", "", "none")
    ELSE IF fault = "save" THEN Do("raise", "save", "none")
    ELSE Do("analyze", "", MimeType(x.Filter))

\* The context handed to analyze_image: full_content as it stands.
ContextStripped(fc) == strip(fc)

Context(fc) == fc

----------------------------------------------------------------------------
\* parse_pdf, one request r at a time or several side by side.

Pages(r) == pdf_content[r]

XObjectsOfPage(r) == IF page_num[r] = 0 THEN <<>> ELSE Pages(r)[page_num[r]].images

InFlight(r) == pc[r] \in {"loop", "dump"}

Call(r, x, mime, reply) ==
    [page |-> page_num[r], obj |-> obj[r] + 1, media_type |-> mime,
     context |-> Context(full_content[r]), raised |-> reply.kind = "raise"]

\* parse_pdf is left: its frame (the loop position, full_content, the record
\* of its analyzer calls) is gone.
Release(r) ==
    /\ page_num' = [page_num EXCEPT ![r] = 0]
    /\ obj' = [obj EXCEPT ![r] = 0]
    /\ full_content' = [full_content EXCEPT ![r] = <<>>]
    /\ calls' = [calls EXCEPT ![r] = <<>>]

\* An exception leaves parse_pdf.
Raise(r, err) ==
    /\ pc' = [pc EXCEPT ![r] = "failed"]
    /\ error' = [error EXCEPT ![r] = err]
    /\ result' = [result EXCEPT ![r] = <<>>]
    /\ Release(r)

\* main.py:112-121: fingerprint, cache lookup, early return on a hit.
\* Requests are numbered in the order they arrive.
Start(r) ==
    /\ pc[r] = "idle"
    /\ \A q \in Reqs : q < r => pc[q] # "idle"
    /\ \E input \in {doc, OtherPdf} :
         LET got == FileCache_get(files, get_pdf_hash(input)) IN
         /\ pdf_content' = [pdf_content EXCEPT ![r] = input]
         /\ seen' = [seen EXCEPT ![r] = FileState(files, get_pdf_hash(input))]
         /\ IF got.ret = "raise"
            THEN Raise(r, "cache.get")
            ELSE IF Truthy(got)
            THEN /\ pc' = [pc EXCEPT ![r] = "returned"]
                 /\ result' = [result EXCEPT ![r] = got.value.content]
                 /\ UNCHANGED <<error, full_content, calls, page_num, obj>>
            ELSE /\ pc' = [pc EXCEPT ![r] = "loop"]
                 /\ UNCHANGED <<result, error, full_content, calls, page_num, obj>>
    /\ UNCHANGED <<files, doc, filterVars>>

\* The request handler of a single-process server: parse_pdf_endpoint calls
\* parse_pdf without awaiting inside it, so a request starts only when no
\* other is being served.
Serve(r) ==
    /\ \A q \in Reqs : ~ InFlight(q)
    /\ Start(r)

\* main.py:123-125: the next page's text is appended.
ExtractPage(r) ==
    /\ pc[r] = "loop"
    /\ obj[r] = Len(XObjectsOfPage(r))
    /\ page_num[r] < Len(Pages(r))
    /\ page_num' = [page_num EXCEPT ![r] = @ + 1]
    /\ obj' = [obj EXCEPT ![r] = 0]
    /\ full_content' = [full_content EXCEPT ![r] =
           @ \o PageSection(page_num[r] + 1, Pages(r)[page_num[r] + 1].text)]
    /\ UNCHANGED <<files, doc, pc, pdf_content, calls, result, error, seen,
                   filterVars>>

\* main.py:129-167: the next XObject of the page.
ProcessImage(r) ==
    /\ pc[r] = "loop"
    /\ obj[r] < Len(XObjectsOfPage(r))
    /\ \E fault \in Faults :
       LET x == XObjectsOfPage(r)[obj[r] + 1]
           step == ImageStep(x, fault)
       IN
       CASE step.do = "continue" ->
              /\ obj' = [obj EXCEPT ![r] = @ + 1]
              /\ UNCHANGED <<pc, full_content, calls, error, result, page_num>>
         [] step.do = "raise" ->
              Raise(r, step.error)
         [] step.do = "analyze" ->
              \E reply \in AnalyzerReplies :
                 LET a == AnalysisOrError(reply) IN
                 IF a.raised
                 THEN Raise(r, "analyze")
                 ELSE /\ calls' = [calls EXCEPT ![r] =
                             Append(@, Call(r, x, step.mime, reply))]
                      /\ obj' = [obj EXCEPT ![r] = @ + 1]
                      /\ full_content' = [full_content EXCEPT ![r] =
                             @ \o ImageSection(page_num[r], a.analysis)]
                      /\ UNCHANGED <<pc, error, result, page_num>>
    /\ UNCHANGED <<files, doc, pdf_content, seen, filterVars>>

\* main.py:169-171 and 36-37: the loop is over; the result is built and the
\* cache file is opened for writing.
Compose(r) ==
    /\ pc[r] = "loop"
    /\ obj[r] = Len(XObjectsOfPage(r))
    /\ page_num[r] = Len(Pages(r))
    /\ result' = [result EXCEPT ![r] = strip(full_content[r])]
    /\ files' = open_w(files, get_pdf_hash(pdf_content[r]))
    /\ pc' = [pc EXCEPT ![r] = "dump"]
    /\ UNCHANGED <<doc, pdf_content, full_content, page_num, obj, calls, error,
                   seen, filterVars>>

\* main.py:38 and 173: json.dump writes the file and parse_pdf returns its
\* result (the frame is gone, the response stays with the caller), or the
\* write fails (disk full, I/O error) and the exception leaves parse_pdf.
Dump(r) ==
    /\ pc[r] = "dump"
    /\ \E ok \in BOOLEAN :
         IF ok
         THEN /\ files' = json_dump(files, get_pdf_hash(pdf_content[r]),
                                    ResponseDict(result[r]))
              /\ pc' = [pc EXCEPT ![r] = "returned"]
              /\ Release(r)
              /\ UNCHANGED <<error, result>>
         ELSE /\ Raise(r, "cache.put")
              /\ UNCHANGED files
    /\ UNCHANGED <<doc, pdf_content, seen, filterVars>>

InitRequests ==
    /\ files = <<>>
    /\ pc = [r \in Reqs |-> "idle"]
    /\ pdf_content = [r \in Reqs |-> <<>>]
    /\ full_content = [r \in Reqs |-> <<>>]
    /\ page_num = [r \in Reqs |-> 0]
    /\ obj = [r \in Reqs |-> 0]
    /\ calls = [r \in Reqs |-> <<>>]
    /\ result = [r \in Reqs |-> <<>>]
    /\ error = [r \in Reqs |-> ""]
    /\ seen = [r \in Reqs |-> ""]

\* The PDF under test: any of at most MaxPages pages and MaxImages XObjects.
Init ==
    /\ \E pages \in 0..MaxPages :
         \E imgs \in SeqsUpTo(XObjectKinds, MaxImages) :
            \E place \in Placements(Len(imgs), pages) :
               doc = MakePdf(pages, imgs, place)
    /\ InitRequests
    /\ width = 0
    /\ height = 0
    /\ relevant = "unset"

\* Requests served one after another (uvicorn.run with one process).
Next ==
    \E r \in Reqs :
        \/ Serve(r)
        \/ ExtractPage(r)
        \/ ProcessImage(r)
        \/ Compose(r)
        \/ Dump(r)

Spec == Init /\ [][Next]_vars

\* Requests served side by side by several worker processes sharing .cache.
NextWorkers ==
    \E r \in Reqs :
        \/ Start(r)
        \/ ExtractPage(r)
        \/ ProcessImage(r)
        \/ Compose(r)
        \/ Dump(r)

\* Requests meet only through the cache file, so the PDF under test is a
\* small one here: no page, or one page with at most one XObject.
InitWorkers ==
    /\ doc \in {MakePdf(0, <<>>, <<>>)}
                 \cup {MakePdf(1, imgs, [i \in 1..Len(imgs) |-> 1]) :
                           imgs \in SeqsUpTo(XObjectKinds, 1)}
    /\ InitRequests
    /\ width = 0
    /\ height = 0
    /\ relevant = "unset"

SpecWorkers == InitWorkers /\ [][NextWorkers]_vars

----------------------------------------------------------------------------
\* The relevance filter on its own: every (width, height) up to MaxDim.

CheckImage ==
    /\ relevant = "unset"
    /\ relevant' = IF is_relevant_image(width, height) THEN "True" ELSE "False"
    /\ UNCHANGED <<width, height, pipelineVars>>

InitFilter ==
    /\ width \in 0..MaxDim
    /\ height \in 0..MaxDim
    /\ relevant = "unset"
    /\ doc = <<>>
    /\ InitRequests

NextFilter == CheckImage

SpecFilter == InitFilter /\ [][NextFilter]_vars

----------------------------------------------------------------------------
\* Claims about the relevance filter (checked under SpecFilter).

Checked(w, h) == width = w /\ height = h /\ relevant # "unset"

\* C3 as stated: is_relevant_image(200, 200) is false (filtered out),
\* is_relevant_image(201, 200) and is_relevant_image(100, 200) are true, and
\* every image of height 0 is analyzed.
C3_AsStated ==
    /\ Checked(200, 200) => relevant = "False"
    /\ Checked(201, 200) => relevant = "True"
    /\ Checked(100, 200) => relevant = "True"
    /\ (height = 0 /\ relevant # "unset") => relevant = "True"

\* C3 amended: is_relevant_image(200, 200) is true (40,000 pixels is not below
\* the threshold) while is_relevant_image(199, 200) is false; (201, 200) and
\* (100, 200) are true; every image of height 0 is analyzed.
C3_Boundary ==
    /\ Checked(200, 200) => relevant = "True"
    /\ Checked(199, 200) => relevant = "False"
    /\ Checked(201, 200) => relevant = "True"
    /\ Checked(100, 200) => relevant = "True"
    /\ (height = 0 /\ relevant # "unset") => relevant = "True"

C3_Witness == Checked(200, 200) /\ relevant = "True"

\* The skip policy in integers: below 40,000 pixels, height positive, and
\* 4/5 <= width/height <= 6/5.
SkippedByPolicy(w, h) ==
    w * h < 40000 /\ h > 0 /\ 4 * h <= 5 * w /\ 5 * w <= 6 * h

\* C4: is_relevant_image(width, height) is false exactly when
\* width*height < 40000, height > 0 and 4*height <= 5*width <= 6*height; it is
\* true for every other pair, every pair of height 0 included.
C4_FilterPolicy ==
    relevant # "unset" =>
        /\ relevant = "False" <=> SkippedByPolicy(width, height)
        /\ relevant = "True" <=> ~ SkippedByPolicy(width, height)

C4_Witness == Checked(120, 100) /\ relevant = "False"

----------------------------------------------------------------------------
\* Claims about parse_pdf.

Hash(r) == get_pdf_hash(pdf_content[r])

IsHeader(tok) == tok[1] \in {"page", "img"}

IsPageHeader(tok) == tok[1] = "page"

IsImageHeader(tok) == tok[1] = "img"

Headers(s) == SelectSeq(s, IsHeader)

\* An image the pipeline is meant to analyze: an image XObject with one of the
\* three recognized filters that the skip policy does not filter out.
Qualifies(x) ==
    /\ x.Subtype = "/Image"
    /\ x.Filter \in {"/FlateDecode", "/DCTDecode", "/JPXDecode"}
    /\ ~ SkippedByPolicy(x.Width, x.Height)

\* <<page, position>> of the qualifying images of page k from position i on.
RECURSIVE QualifyingFrom(_, _, _)
QualifyingFrom(pdf, k, i) ==
    IF i > Len(pdf[k].images) THEN <<>>
    ELSE (IF Qualifies(pdf[k].images[i]) THEN <<<<k, i>>>> ELSE <<>>)
         \o QualifyingFrom(pdf, k, i + 1)

\* ... of pages k, k+1, ... in page order.
RECURSIVE QualifyingImages(_, _)
QualifyingImages(pdf, k) ==
    IF k > Len(pdf) THEN <<>>
    ELSE QualifyingFrom(pdf, k, 1) \o QualifyingImages(pdf, k + 1)

\* The headers the composed document is to carry, pages k, k+1, ...
RECURSIVE Layout(_, _)
Layout(pdf, k) ==
    IF k > Len(pdf) THEN <<>>
    ELSE <<<<"page", k>>>>
         \o [i \in 1..Len(QualifyingFrom(pdf, k, 1)) |-> <<"img", k>>]
         \o Layout(pdf, k + 1)

\* The loop is over and the result is built: what parse_pdf returns once the
\* cache file is written.
Composed(r) == pc[r] = "dump"

\* The section written for call i of request r starts right after its context.
SectionFollows(r, i) ==
    IsPrefix(calls[r][i].context
                 \o <<NL, NL, <<"img", calls[r][i].page>>, NL, NL>>,
             full_content[r])

\* C1: a failing analyzer call never ends parse_pdf; its section is written
\* with a body starting "Error analyzing image:", the loop moves on past the
\* image, and a run that returns has met every qualifying image and carries a
\* page section for every page.
C1_AnalyzerFailureContained ==
    \A r \in Reqs :
        /\ pc[r] = "failed" => error[r] # "analyze"
        /\ \A i \in 1..Len(calls[r]) :
              calls[r][i].raised =>
                  IsPrefix(calls[r][i].context
                               \o <<NL, NL, <<"img", calls[r][i].page>>, NL, NL,
                                    <<"err", 0>>>>,
                           full_content[r])
        /\ \A i \in 1..Len(calls[r]) :
              calls[r][i].raised =>
                  \/ page_num[r] > calls[r][i].page
                  \/ page_num[r] = calls[r][i].page /\ obj[r] >= calls[r][i].obj
        /\ (Composed(r) /\ \E i \in 1..Len(calls[r]) : calls[r][i].raised) =>
              /\ SelectSeq(result[r], IsPageHeader)
                     = [k \in 1..Len(pdf_content[r]) |-> <<"page", k>>]
              /\ Len(calls[r]) = Len(QualifyingImages(pdf_content[r], 1))

C1_Witness ==
    \E r \in Reqs :
        /\ Composed(r)
        /\ Len(pdf_content[r]) = 2
        /\ Len(calls[r]) = 2
        /\ calls[r][1].raised /\ calls[r][1].page = 1
        /\ ~ calls[r][2].raised /\ calls[r][2].page = 2

\* C5: the document a cache miss returns carries the headers "Page 1", its
\* image sections, "Page 2", its image sections, ... with one image section
\* and one analyzer call per qualifying image, in encounter order, and none
\* for any other XObject.
C5_Layout ==
    [][ \A r \in Reqs :
          (pc[r] = "dump" /\ pc'[r] = "returned") =>
              /\ Headers(result'[r]) = Layout(pdf_content[r], 1)
              /\ [i \in 1..Len(calls[r]) |-> <<calls[r][i].page, calls[r][i].obj>>]
                     = QualifyingImages(pdf_content[r], 1)
              /\ \A i \in 1..Len(calls[r]) : SectionFollows(r, i) ]_vars

C5_Witness ==
    \E r \in Reqs :
        /\ pc[r] = "returned" /\ seen[r] = "absent"
        /\ Len(pdf_content[r]) = 2
        /\ Len(pdf_content[r][1].images) = 0
        /\ Len(pdf_content[r][2].images) = 2
        /\ Headers(result[r]) = <<<<"page", 1>>, <<"page", 2>>, <<"img", 2>>>>

\* C10: each analyzer call receives full_content as accumulated so far: the
\* context holds the sections of pages 1..k (k the image's page) and of every
\* earlier image, the call's own section follows it directly, each context is
\* a strict prefix of the next call's, and each is a prefix of the untrimmed
\* document.
C10_ContextGrows ==
    \A r \in Reqs :
        \A i \in 1..Len(calls[r]) :
            LET c == calls[r][i] IN
            /\ IsPrefix(c.context, full_content[r])
            /\ SectionFollows(r, i)
            /\ SelectSeq(c.context, IsPageHeader) = [k \in 1..c.page |-> <<"page", k>>]
            /\ Len(SelectSeq(c.context, IsImageHeader)) = i - 1
            /\ i < Len(calls[r]) =>
                  /\ IsPrefix(c.context, calls[r][i + 1].context)
                  /\ Len(c.context) < Len(calls[r][i + 1].context)

C10_Witness ==
    \E r \in Reqs :
        /\ Composed(r)
        /\ Len(calls[r]) = 2
        /\ calls[r][1].page = 1
        /\ calls[r][2].page = 2
        /\ ~ IsPrefix(calls[r][1].context, result[r])

\* C2: when a request is served after another one returned for the same
\* bytes, it returns at once with the same document and without any analyzer
\* call.
C2_Idempotent ==
    [][ \A r2 \in Reqs :
          (/\ pc[r2] = "idle"
           /\ pc'[r2] # "idle"
           /\ \E r1 \in Reqs : pc[r1] = "returned" /\ pdf_content[r1] = pdf_content'[r2])
          =>
          (/\ pc'[r2] = "returned"
           /\ calls'[r2] = <<>>
           /\ \A r1 \in Reqs :
                 (pc[r1] = "returned" /\ pdf_content[r1] = pdf_content'[r2])
                     => result'[r2] = result[r1]) ]_vars

C2_Witness ==
    \E r1 \in Reqs : \E r2 \in Reqs :
        /\ r1 # r2
        /\ pc[r1] = "returned" /\ pc[r2] = "returned"
        /\ pdf_content[r1] = pdf_content[r2]
        /\ seen[r1] = "absent" /\ seen[r2] = "complete"
        /\ Len(SelectSeq(result[r1], IsImageHeader)) = 2
        /\ result[r1] = result[r2]

\* C6 as stated: no failure at a per-image step (reading the data, decoding,
\* re-encoding, the analyzer call) ends parse_pdf.
C6_ImageFailureContained ==
    \A r \in Reqs :
        pc[r] = "failed" => error[r] \notin {"get_data", "decode", "save", "analyze"}

\* C7 as stated: no failure of FileCache.get or FileCache.put ends parse_pdf.
C7_CacheFailureContained ==
    \A r \in Reqs :
        pc[r] = "failed" => error[r] \notin {"cache.get", "cache.put"}

\* C9 as stated: an image whose filter is none of the three recognized ones,
\* or that has no filter entry, causes no analyzer call and no section, and
\* reading its filter entry is no error.
C9_UnrecognizedSkipped ==
    \A r \in Reqs :
        /\ \A i \in 1..Len(calls[r]) :
              pdf_content[r][calls[r][i].page].images[calls[r][i].obj].Filter
                  \in RecognizedFilters
        /\ pc[r] = "failed" => error[r] # "filter"

----------------------------------------------------------------------------
\* Claims about the cache under side-by-side requests (SpecWorkers).

Stored(f) == f \in DOMAIN files /\ files[f].complete

\* C8 as stated: a stored record is never replaced by a different value, and
\* every request that has returned holds the stored document.
C8_WriteOnce ==
    [][ /\ \A f \in DOMAIN files : files[f].complete => files'[f] = files[f]
        /\ \A r \in Reqs :
              pc'[r] = "returned" =>
                  /\ Stored(Hash(r))'
                  /\ files'[Hash(r)'].value.content = result'[r] ]_vars

\* C8 amended: a stored record is replaced only by a request whose own cache
\* lookup came before the record was stored, and a request whose lookup finds
\* a stored record returns that document, without analyzer calls and without
\* writing.
C8_WrittenOnlyAfterMiss ==
    [][ /\ \A f \in DOMAIN files :
              (files[f].complete /\ files'[f] # files[f]) =>
                  \E r \in Reqs :
                      /\ pc[r] \in {"loop", "dump"} /\ pc'[r] # pc[r]
                      /\ Hash(r) = f
                      /\ seen[r] # "complete"
        /\ \A r \in Reqs :
              (pc[r] = "idle" /\ seen'[r] = "complete") =>
                  /\ pc'[r] = "returned"
                  /\ result'[r] = files[Hash(r)'].value.content
                  /\ calls'[r] = <<>>
                  /\ files' = files ]_vars

C8_Witness ==
    \E r1 \in Reqs : \E r2 \in Reqs :
        /\ pc[r1] = "returned" /\ pc[r2] = "returned"
        /\ pdf_content[r1] = pdf_content[r2]
        /\ seen[r1] = "absent" /\ seen[r2] = "absent"
        /\ result[r1] # result[r2]
        /\ files[Hash(r2)].value.content = result[r2]

====
